---- MODULE Spec2Model ----
(***************************************************************************)
(* A model of tinyaes-rs: the AES block cipher (src/src/aes.rs) and the    *)
(* 16-byte block padding schemes (src/src/padding.rs).                     *)
(*                                                                         *)
(* Bytes are naturals 0..255.  Fixed-size Rust arrays ([u8; 4], [u8; 16],  *)
(* [[u8; 4]; 4]) are functions with the source's 0-based indices; Vec and  *)
(* slices (&[u8]) are sequences, so source index i is element i + 1.       *)
(***************************************************************************)
EXTENDS Integers, Sequences, FiniteSets, TLC

VARIABLES
  key,            \* AES.key: the AESKey the instance holds (pub field)
  round_keys,     \* AES.round_keys: Vec<[u8; 4]>
  op,             \* the last cipher call: "new", "encrypt", "decrypt", "set_key"
  block,          \* the block given to the last encrypt/decrypt
  out,            \* what the last encrypt/decrypt did: returned a block or panicked
  chained,        \* the input of the preceding encrypt when `block` is its output
  padding_type,   \* Padding.padding_type
  overflow_checks,\* build setting: does usize arithmetic overflow panic (debug) or wrap
  pad_op,         \* the last padding call: "new", "pad", "de_pad"
  pad_input,      \* the slice given to the last pad/de_pad
  pad_result,     \* what the last pad/de_pad did: returned bytes or panicked
  pad_source,     \* the input of the preceding pad when `pad_input` derives from its output
  calls,          \* per caller: the encrypt/decrypt call in progress on the shared instance
  call_state,     \* per call: its local `state: [[u8; 4]; 4]`
  prim_op,        \* the last round primitive called on a state
  prim_state,     \* the state the primitive left
  prim_in,        \* the state the primitive was called on
  prim_orig,      \* the state before the forward primitive that an inverse follows
  prim_depth      \* number of forward primitives called so far

vars == << key, round_keys, op, block, out, chained,
           padding_type, overflow_checks, pad_op, pad_input, pad_result, pad_source,
           calls, call_state, prim_op, prim_state, prim_in, prim_orig, prim_depth >>

call_vars == << calls, call_state >>

prim_vars == << prim_op, prim_state, prim_in, prim_orig, prim_depth >>

aes_vars == << key, round_keys, op, block, out, chained >>

pad_vars == << padding_type, overflow_checks, pad_op, pad_input, pad_result, pad_source >>

-----------------------------------------------------------------------------
(* u8 and usize arithmetic *)

\* An array value, computed once: the model checker otherwise keeps
\* [i \in S |-> e] as an unevaluated expression and recomputes e at every read.
Eager(f) == f @@ f

\* [a, b, c, ...] as a fixed-size array indexed from 0
Arr(s) == Eager([i \in 0..(Len(s) - 1) |-> s[i + 1]])

\* a 4x4 state computed once, cell by cell
Eager2(m) == Eager([r \in 0..3 |-> Eager(m[r])])

RECURSIVE XorBits(_, _, _)
XorBits(a, b, n) ==
  IF n = 0 THEN 0
  ELSE ((a + b) % 2) + 2 * XorBits(a \div 2, b \div 2, n - 1)

XorNibble == [a \in 0..15 |-> [b \in 0..15 |-> XorBits(a, b, 4)]]

\* the ^ operator on u8
Xor(a, b) == 16 * XorNibble[a \div 16][b \div 16] + XorNibble[a % 16][b % 16]

\* the << 1 operator on u8: the bit shifted out is dropped
Shl1(b) == (2 * b) % 256

\* the >> n operator
Shr(b, n) == b \div (2 ^ n)

\* a faulty doubling: the reduction by the AES polynomial is left out
xtime_unreduced(b) == Shl1(b)

\* the doubling in GF(2^8) that mix_columns and inv_mix_columns write inline:
\* if (b >> 7) == 1 {(b << 1) ^ 0x1b} else {b << 1}
xtime(b) == IF Shr(b, 7) = 1 THEN Xor(Shl1(b), 27) ELSE Shl1(b)

-----------------------------------------------------------------------------
(* The constant tables *)

S_BOX ==
  <<
    << 99, 124, 119, 123, 242, 107, 111, 197, 48, 1, 103, 43, 254, 215, 171, 118 >>,
    << 202, 130, 201, 125, 250, 89, 71, 240, 173, 212, 162, 175, 156, 164, 114, 192 >>,
    << 183, 253, 147, 38, 54, 63, 247, 204, 52, 165, 229, 241, 113, 216, 49, 21 >>,
    << 4, 199, 35, 195, 24, 150, 5, 154, 7, 18, 128, 226, 235, 39, 178, 117 >>,
    << 9, 131, 44, 26, 27, 110, 90, 160, 82, 59, 214, 179, 41, 227, 47, 132 >>,
    << 83, 209, 0, 237, 32, 252, 177, 91, 106, 203, 190, 57, 74, 76, 88, 207 >>,
    << 208, 239, 170, 251, 67, 77, 51, 133, 69, 249, 2, 127, 80, 60, 159, 168 >>,
    << 81, 163, 64, 143, 146, 157, 56, 245, 188, 182, 218, 33, 16, 255, 243, 210 >>,
    << 205, 12, 19, 236, 95, 151, 68, 23, 196, 167, 126, 61, 100, 93, 25, 115 >>,
    << 96, 129, 79, 220, 34, 42, 144, 136, 70, 238, 184, 20, 222, 94, 11, 219 >>,
    << 224, 50, 58, 10, 73, 6, 36, 92, 194, 211, 172, 98, 145, 149, 228, 121 >>,
    << 231, 200, 55, 109, 141, 213, 78, 169, 108, 86, 244, 234, 101, 122, 174, 8 >>,
    << 186, 120, 37, 46, 28, 166, 180, 198, 232, 221, 116, 31, 75, 189, 139, 138 >>,
    << 112, 62, 181, 102, 72, 3, 246, 14, 97, 53, 87, 185, 134, 193, 29, 158 >>,
    << 225, 248, 152, 17, 105, 217, 142, 148, 155, 30, 135, 233, 206, 85, 40, 223 >>,
    << 140, 161, 137, 13, 191, 230, 66, 104, 65, 153, 45, 15, 176, 84, 187, 22 >>
  >>

INV_S_BOX ==
  <<
    << 82, 9, 106, 213, 48, 54, 165, 56, 191, 64, 163, 158, 129, 243, 215, 251 >>,
    << 124, 227, 57, 130, 155, 47, 255, 135, 52, 142, 67, 68, 196, 222, 233, 203 >>,
    << 84, 123, 148, 50, 166, 194, 35, 61, 238, 76, 149, 11, 66, 250, 195, 78 >>,
    << 8, 46, 161, 102, 40, 217, 36, 178, 118, 91, 162, 73, 109, 139, 209, 37 >>,
    << 114, 248, 246, 100, 134, 104, 152, 22, 212, 164, 92, 204, 93, 101, 182, 146 >>,
    << 108, 112, 72, 80, 253, 237, 185, 218, 94, 21, 70, 87, 167, 141, 157, 132 >>,
    << 144, 216, 171, 0, 140, 188, 211, 10, 247, 228, 88, 5, 184, 179, 69, 6 >>,
    << 208, 44, 30, 143, 202, 63, 15, 2, 193, 175, 189, 3, 1, 19, 138, 107 >>,
    << 58, 145, 17, 65, 79, 103, 220, 234, 151, 242, 207, 206, 240, 180, 230, 115 >>,
    << 150, 172, 116, 34, 231, 173, 53, 133, 226, 249, 55, 232, 28, 117, 223, 110 >>,
    << 71, 241, 26, 113, 29, 41, 197, 137, 111, 183, 98, 14, 170, 24, 190, 27 >>,
    << 252, 86, 62, 75, 198, 210, 121, 32, 154, 219, 192, 254, 120, 205, 90, 244 >>,
    << 31, 221, 168, 51, 136, 7, 199, 49, 177, 18, 16, 89, 39, 128, 236, 95 >>,
    << 96, 81, 127, 169, 25, 181, 74, 13, 45, 229, 122, 159, 147, 201, 156, 239 >>,
    << 160, 224, 59, 77, 174, 42, 245, 176, 200, 235, 187, 60, 131, 83, 153, 97 >>,
    << 23, 43, 4, 126, 186, 119, 214, 38, 225, 105, 20, 99, 85, 33, 12, 125 >>
  >>

\* R_CON: [u32; 10]; each u32 is written as its four bytes, most significant
\* first (0x1b000000 is << 27, 0, 0, 0 >>), since 0x80000000 exceeds the
\* model checker's integers
R_CON ==
  << << 1, 0, 0, 0 >>, << 2, 0, 0, 0 >>, << 4, 0, 0, 0 >>, << 8, 0, 0, 0 >>,
     << 16, 0, 0, 0 >>, << 32, 0, 0, 0 >>, << 64, 0, 0, 0 >>, << 128, 0, 0, 0 >>,
     << 27, 0, 0, 0 >>, << 54, 0, 0, 0 >> >>

\* (R_CON[i] >> 24) as u8
RconByte(i) == R_CON[i + 1][1]

\* S_BOX[(b >> 4) as usize][(b & 0b00001111) as usize]
SBoxAt(b) == S_BOX[Shr(b, 4) + 1][(b % 16) + 1]

\* INV_S_BOX[(b >> 4) as usize][(b & 0b00001111) as usize]
InvSBoxAt(b) == INV_S_BOX[Shr(b, 4) + 1][(b % 16) + 1]

-----------------------------------------------------------------------------
(* AESKey and the key expansion *)

Variants == {"AES128", "AES192", "AES256"}

AESKey(variant, key_seq) == [variant |-> variant, key_seq |-> key_seq]

\* the key length each variant of the enum carries
KeyBytes(variant) ==
  CASE variant = "AES128" -> 16 [] variant = "AES192" -> 24 [] variant = "AES256" -> 32

\* the match on self.key that encrypt, decrypt and key_expansion repeat
Rounds(k) ==
  CASE k.variant = "AES128" -> 10 [] k.variant = "AES192" -> 12 [] k.variant = "AES256" -> 14

Nk(k) ==
  CASE k.variant = "AES128" -> 4 [] k.variant = "AES192" -> 6 [] k.variant = "AES256" -> 8

\* a faulty rot_word: the word is rotated to the right
rot_word_right(word) == Eager([i \in 0..3 |-> word[(i + 3) % 4]])

\* word.rotate_left(1)
rot_word(word) == Eager([i \in 0..3 |-> word[(i + 1) % 4]])

sub_word(word) == Eager([i \in 0..3 |-> SBoxAt(word[i])])

\* the first loop of key_expansion: one word per 4 key bytes
SeedWords(k) ==
  [j \in 1..(KeyBytes(k.variant) \div 4) |->
     Eager([b \in 0..3 |-> k.key_seq[4 * (j - 1) + b]])]

\* temp as key_expansion transforms it before the XOR, for word index i
ExpandTemp(prev, i, nk) ==
  IF i % nk = 0
    THEN LET t == sub_word(rot_word(prev))
         IN  [t EXCEPT ![0] = Xor(t[0], RconByte((i \div nk) - 1))]
    ELSE IF nk = 8 /\ i % nk = 4 THEN sub_word(prev)
    ELSE prev

\* the body of the second loop: the word pushed for index i
NextWord(rks, i, nk) ==
  LET temp == ExpandTemp(rks[(i - 1) + 1], i, nk)
      back == rks[(i - nk) + 1]
  IN  Eager([b \in 0..3 |-> Xor(back[b], temp[b])])

RECURSIVE ExpandFrom(_, _, _)
ExpandFrom(rks, nk, num_of_words) ==
  IF Len(rks) >= num_of_words THEN rks
  ELSE ExpandFrom(Append(rks, NextWord(rks, Len(rks), nk)), nk, num_of_words)

key_expansion(k) == ExpandFrom(SeedWords(k), Nk(k), 4 * (1 + Rounds(k)))

-----------------------------------------------------------------------------
(* The round primitives on the 4x4 state, state[r][c] *)

\* a slice of 4 round-key words starting at word index `from` (0-based)
RoundKeySlice(rks, from) == Eager([c \in 0..3 |-> rks[from + c + 1]])

add_round_key(state, rk) ==
  Eager2([r \in 0..3 |-> [c \in 0..3 |-> Xor(state[r][c], rk[c][r])]])

\* one column of mix_columns: temp_column[0..3] from state[0..3][c]
MixColumn(s0, s1, s2, s3) ==
  << Xor(Xor(Xor(xtime(s0), Xor(xtime(s1), s1)), s2), s3),
     Xor(Xor(Xor(s0, xtime(s1)), Xor(xtime(s2), s2)), s3),
     Xor(Xor(Xor(s0, s1), xtime(s2)), Xor(xtime(s3), s3)),
     Xor(Xor(Xor(Xor(xtime(s0), s0), s1), s2), xtime(s3)) >>

mix_columns(state) ==
  LET col == Eager([c \in 0..3 |-> MixColumn(state[0][c], state[1][c], state[2][c], state[3][c])])
  IN  Eager2([r \in 0..3 |-> [c \in 0..3 |-> col[c][r + 1]]])

\* row.rotate_left(n)
RotateLeft(row, n) == Eager([c \in 0..3 |-> row[(c + n) % 4]])

\* row.rotate_right(n)
RotateRight(row, n) == Eager([c \in 0..3 |-> row[(c + 4 - n) % 4]])

shift_rows(state) ==
  Eager([r \in 0..3 |-> IF r = 0 THEN state[0] ELSE RotateLeft(state[r], r)])

sub_bytes(state) == Eager2([r \in 0..3 |-> [c \in 0..3 |-> SBoxAt(state[r][c])]])

\* Xor of three and of four bytes, as the parenthesised groups of inv_mix_columns
Xor3(a, b, c) == Xor(Xor(a, b), c)

\* one column of inv_mix_columns; m[i] = << 02, 04, 08 >> multiples of state[i][c]
InvMixColumn(s) ==
  LET m == Eager([i \in 0..3 |->
              LET m0 == xtime(s[i])
                  m1 == xtime(m0)
                  m2 == xtime(m1)
              IN  Eager([j \in 0..2 |-> CASE j = 0 -> m0 [] j = 1 -> m1 [] j = 2 -> m2])])
  IN  << Xor(Xor3(Xor3(m[0][0], m[0][1], m[0][2]),
                  Xor3(s[1], m[1][0], m[1][2]),
                  Xor3(s[2], m[2][1], m[2][2])),
             Xor(s[3], m[3][2])),
         Xor(Xor3(Xor(s[0], m[0][2]),
                  Xor3(m[1][0], m[1][1], m[1][2]),
                  Xor3(s[2], m[2][0], m[2][2])),
             Xor3(s[3], m[3][1], m[3][2])),
         Xor(Xor3(Xor3(s[0], m[0][1], m[0][2]),
                  Xor(s[1], m[1][2]),
                  Xor3(m[2][0], m[2][1], m[2][2])),
             Xor3(s[3], m[3][0], m[3][2])),
         Xor(Xor3(Xor3(s[0], m[0][0], m[0][2]),
                  Xor3(s[1], m[1][1], m[1][2]),
                  Xor(s[2], m[2][2])),
             Xor3(m[3][0], m[3][1], m[3][2])) >>

inv_mix_columns(state) ==
  LET col == Eager([c \in 0..3 |-> InvMixColumn(Eager([i \in 0..3 |-> state[i][c]]))])
  IN  Eager2([r \in 0..3 |-> [c \in 0..3 |-> col[c][r + 1]]])

\* a faulty inverse shift: the rows are rotated to the left, as in shift_rows
inv_shift_rows_left(state) ==
  Eager([r \in 0..3 |-> IF r = 0 THEN state[0] ELSE RotateLeft(state[r], r)])

inv_shift_rows(state) ==
  Eager([r \in 0..3 |-> IF r = 0 THEN state[0] ELSE RotateRight(state[r], r)])

inv_sub_bytes(state) == Eager2([r \in 0..3 |-> [c \in 0..3 |-> InvSBoxAt(state[r][c])]])

-----------------------------------------------------------------------------
(* AES::new, AES::encrypt, AES::decrypt *)

\* state[r][c] = block[r + c * 4]
ToState(blk) == Eager2([r \in 0..3 |-> [c \in 0..3 |-> blk[r + c * 4]]])

\* out_block[r + c * 4] = state[r][c]
FromState(state) == Eager([i \in 0..15 |-> state[i % 4][i \div 4]])

Returned(v) == [panic |-> FALSE, value |-> v]

\* a panic of the call: nothing is returned
Panicked(msg) == [panic |-> TRUE, value |-> msg]

\* &self.round_keys[round * 4..(round + 1) * 4] is inside the Vec
SliceInRange(rks, round) == (round + 1) * 4 <= Len(rks)

\* one pass of encrypt's for loop body
EncryptRound(state, rks, round) ==
  add_round_key(mix_columns(shift_rows(sub_bytes(state))),
                RoundKeySlice(rks, round * 4))

\* the state after encrypt's for loop has run rounds 1..round, or the panic
\* of the first round whose round-key slice is outside the Vec
RECURSIVE EncryptRounds(_, _, _)
EncryptRounds(first, rks, round) ==
  IF round = 0 THEN Returned(first)
  ELSE LET before == EncryptRounds(first, rks, round - 1)
       IN  IF before.panic THEN before
           ELSE IF ~SliceInRange(rks, round)
             THEN Panicked("range end index out of range for slice")
           ELSE Returned(EncryptRound(before.value, rks, round))

encrypt(k, rks, blk) ==
  LET first == add_round_key(ToState(blk), RoundKeySlice(rks, 0))
      body  == EncryptRounds(first, rks, Rounds(k) - 1)
  IN  IF body.panic THEN body
      ELSE Returned(FromState(
             add_round_key(shift_rows(sub_bytes(body.value)),
                           RoundKeySlice(rks, Len(rks) - 4))))

\* a faulty decrypt round: InvMixColumns before AddRoundKey, the order of
\* the equivalent inverse cipher, with the round keys of the plain one
DecryptRound_mix_first(state, rks, round) ==
  add_round_key(inv_mix_columns(inv_sub_bytes(inv_shift_rows(state))),
                RoundKeySlice(rks, round * 4))

\* one pass of decrypt's for loop body
DecryptRound(state, rks, round) ==
  inv_mix_columns(
    add_round_key(inv_sub_bytes(inv_shift_rows(state)),
                  RoundKeySlice(rks, round * 4)))

\* the state after decrypt's reversed for loop has run rounds last..round
\* (last = rounds - 1, descending), or the panic of the first round whose
\* round-key slice is outside the Vec
RECURSIVE DecryptRounds(_, _, _, _)
DecryptRounds(first, rks, round, last) ==
  IF round > last THEN Returned(first)
  ELSE LET before == DecryptRounds(first, rks, round + 1, last)
       IN  IF before.panic THEN before
           ELSE IF ~SliceInRange(rks, round)
             THEN Panicked("range end index out of range for slice")
           ELSE Returned(DecryptRound(before.value, rks, round))

decrypt(k, rks, blk) ==
  LET first == add_round_key(ToState(blk), RoundKeySlice(rks, Len(rks) - 4))
      body  == DecryptRounds(first, rks, 1, Rounds(k) - 1)
  IN  IF body.panic THEN body
      ELSE Returned(FromState(
             add_round_key(inv_sub_bytes(inv_shift_rows(body.value)),
                           RoundKeySlice(rks, 0))))

\* AES::new(key): the instance as constructed
AESnew(k) == [key |-> k, round_keys |-> key_expansion(k)]

-----------------------------------------------------------------------------
(* The keys and blocks the cipher is exercised on *)

\* number of generated keys per variant besides the published test keys
MaxKeySeed == 1

\* number of generated blocks besides the published test blocks
MaxBlockSeed == 1

\* key bytes 00 01 02 ... of the FIPS-197 Appendix C example vectors
FipsKey(variant) == AESKey(variant, Eager([i \in 0..(KeyBytes(variant) - 1) |-> i]))

\* the keys of tests::key_expansion (src/src/lib.rs)
TestKey128 ==
  AESKey("AES128", Arr(<< 43, 126, 21, 22, 40, 174, 210, 166,
                          171, 247, 21, 136, 9, 207, 79, 60 >>))

TestKey192 ==
  AESKey("AES192", Arr(<< 142, 115, 176, 247, 218, 14, 100, 82,
                          200, 16, 243, 43, 128, 144, 121, 229,
                          98, 248, 234, 210, 82, 44, 107, 123 >>))

TestKey256 ==
  AESKey("AES256", Arr(<< 96, 61, 235, 16, 21, 202, 113, 190,
                          43, 115, 174, 240, 133, 125, 119, 129,
                          31, 53, 44, 7, 59, 97, 8, 215,
                          45, 152, 16, 163, 9, 20, 223, 244 >>))

\* generated keys: seed 0 is the all-zero key of tests::test_main
SeedKey(variant, seed) ==
  AESKey(variant,
         Eager([i \in 0..(KeyBytes(variant) - 1) |-> (seed * (151 + 37 * i + i * i)) % 256]))

Keys ==
  {FipsKey(v) : v \in Variants}
    \cup {TestKey128, TestKey192, TestKey256}
    \cup {SeedKey(v, s) : v \in Variants, s \in 0..MaxKeySeed}

\* the keys a caller assigns to the pub field after construction
AssignedKeys == {FipsKey(v) : v \in Variants}

\* plaintext 00 11 22 ... ff of the FIPS-197 Appendix C example vectors
FipsPlain == Eager([i \in 0..15 |-> 17 * i])

\* generated blocks: seed 0 is the block 1, 2, ..., 16 of tests::test_main
SeedBlock(seed) == Eager([i \in 0..15 |-> (i + 1 + seed * (199 + 59 * i)) % 256])

Blocks == {FipsPlain} \cup {SeedBlock(s) : s \in 0..MaxBlockSeed}

\* the ciphertexts FIPS-197 Appendix C publishes for FipsPlain under FipsKey
FipsCipher(variant) ==
  CASE variant = "AES128" ->
         Arr(<< 105, 196, 224, 216, 106, 123, 4, 48,
                216, 205, 183, 128, 112, 180, 197, 90 >>)
    [] variant = "AES192" ->
         Arr(<< 221, 169, 124, 164, 134, 76, 223, 224,
                110, 175, 112, 160, 236, 13, 113, 145 >>)
    [] variant = "AES256" ->
         Arr(<< 142, 162, 183, 202, 81, 103, 69, 191,
                234, 252, 73, 144, 75, 73, 96, 137 >>)

\* the blocks decrypt is called on
CipherBlocks == Blocks \cup {FipsCipher(v) : v \in Variants}

NoBlock == << >>

NoKey == [variant |-> "none", key_seq |-> << >>]

NoResult == [panic |-> FALSE, value |-> << >>]

-----------------------------------------------------------------------------
(* The cipher instance as a state machine *)

\* no Padding exists in the behaviours of the cipher
PadIdle ==
  /\ padding_type = "None"
  /\ overflow_checks = TRUE
  /\ pad_op = "idle"
  /\ pad_input = << >>
  /\ pad_result = NoResult
  /\ pad_source = << >>

\* no encrypt or decrypt is running step by step
CallIdle ==
  /\ calls = << >>
  /\ call_state = << >>

\* no round primitive is called on its own
PrimIdle ==
  /\ prim_op = "idle"
  /\ prim_state = << >>
  /\ prim_in = << >>
  /\ prim_orig = << >>
  /\ prim_depth = 0

\* let aes = AES::new(key)
InitAES ==
  /\ \E k \in Keys :
       /\ key = AESnew(k).key
       /\ round_keys = AESnew(k).round_keys
  /\ op = "new"
  /\ block = NoBlock
  /\ out = NoResult
  /\ chained = NoBlock
  /\ PadIdle
  /\ CallIdle
  /\ PrimIdle

\* aes.encrypt(&b) on a block of the caller's
Encrypt(b) ==
  /\ op' = "encrypt"
  /\ block' = b
  /\ out' = encrypt(key, round_keys, b)
  /\ chained' = NoBlock
  /\ UNCHANGED << key, round_keys, pad_vars, call_vars, prim_vars >>

\* aes.decrypt(&b) on a block of the caller's
Decrypt(b) ==
  /\ op' = "decrypt"
  /\ block' = b
  /\ out' = decrypt(key, round_keys, b)
  /\ chained' = NoBlock
  /\ UNCHANGED << key, round_keys, pad_vars, call_vars, prim_vars >>

\* aes.decrypt(&c) where c is what the preceding aes.encrypt(&b) returned
DecryptEncrypted ==
  /\ op = "encrypt"
  /\ ~out.panic
  /\ block \in Blocks
  /\ op' = "decrypt"
  /\ block' = out.value
  /\ out' = decrypt(key, round_keys, out.value)
  /\ chained' = block
  /\ UNCHANGED << key, round_keys, pad_vars, call_vars, prim_vars >>

\* aes.key = k: the field is pub, so a caller holding the instance mutably
\* can assign it; round_keys is pub(crate) and nothing recomputes it
SetKey(k) ==
  /\ k # key
  /\ key' = k
  /\ op' = "set_key"
  /\ block' = NoBlock
  /\ out' = NoResult
  /\ chained' = NoBlock
  /\ UNCHANGED << round_keys, pad_vars, call_vars, prim_vars >>

NextAES ==
  \/ \E b \in Blocks : Encrypt(b)
  \/ \E b \in CipherBlocks : Decrypt(b)
  \/ DecryptEncrypted
  \/ \E k \in AssignedKeys : SetKey(k)

SpecAES == InitAES /\ [][NextAES]_vars

-----------------------------------------------------------------------------
(* Padding: pad and de_pad (src/src/padding.rs) *)

PaddingTypes == {"PKCS7", "ISO78164", "ISO101262", "X923", "None"}

\* the panic messages of padding.rs
MsgPadNone == "Trying to pad with None padding type."

MsgPad16 == "Trying to pad 16 bytes long input."

MsgDePadNone == "Trying to de-pad with None padding type."

MsgInvalidPadding == "Invalid padding."

\* the panics of the Rust runtime: usize subtraction below zero where overflow
\* checks are compiled in, indexing past the end, slicing past the end
MsgOverflow == "attempt to subtract with overflow"

MsgIndex == "index out of bounds"

MsgSliceEnd == "range end index out of range for slice"

\* the length of the output array of pad: [u8; 16]
BlockLen == 16

\* a faulty fill: the first byte of the range is skipped
Fill_skip_first(output, from, to, v) ==
  [i \in 1..Len(output) |-> IF from < i - 1 /\ i - 1 < to THEN v ELSE output[i]]

\* output[from..to].fill(v) on a sequence holding the array (0-based from, to)
Fill(output, from, to, v) ==
  [i \in 1..Len(output) |-> IF from <= i - 1 /\ i - 1 < to THEN v ELSE output[i]]

\* let mut output = [0; 16]; output[..input.len()].copy_from_slice(input)
CopyIn(input) == [i \in 1..BlockLen |-> IF i <= Len(input) THEN input[i] ELSE 0]

\* the match of pad; random[i] is what random::<u8>() returns for output[i]
PadMatch(t, input, random) ==
  LET len == Len(input)
      output == CopyIn(input)
  IN  CASE t = "PKCS7" -> Fill(output, len, 16, 16 - len)
        [] t = "ISO78164" ->
             Fill([output EXCEPT ![len + 1] = 128], len + 1, 16, 0)
        [] t = "ISO101262" ->
             [i \in 1..BlockLen |->
                IF i - 1 = BlockLen - 1 THEN 16 - len
                ELSE IF len <= i - 1 THEN random[i - 1]
                ELSE output[i]]
        [] t = "X923" -> Fill([output EXCEPT ![16] = 16 - len], len, 15, 0)

\* a faulty pad: a 16-byte input is handed back as the block
pad_full_block_returned(t, input, random) ==
  IF t = "None" THEN Panicked(MsgPadNone)
  ELSE IF Len(input) = 16 THEN Returned(CopyIn(input))
  ELSE IF Len(input) > BlockLen THEN Panicked(MsgSliceEnd)
  ELSE Returned(PadMatch(t, input, random))

\* a faulty pad: the length is checked before the padding type
pad_size_first(t, input, random) ==
  IF Len(input) = 16 THEN Panicked(MsgPad16)
  ELSE IF t = "None" THEN Panicked(MsgPadNone)
  ELSE IF Len(input) > BlockLen THEN Panicked(MsgSliceEnd)
  ELSE Returned(PadMatch(t, input, random))

pad(t, input, random) ==
  IF t = "None" THEN Panicked(MsgPadNone)
  ELSE IF Len(input) = 16 THEN Panicked(MsgPad16)
  ELSE IF Len(input) > BlockLen THEN Panicked(MsgSliceEnd)
  ELSE Returned(PadMatch(t, input, random))

\* &input[..upper_bound]
Prefix(input, upper_bound) == [i \in 1..upper_bound |-> input[i]]

\* an upper_bound the match of de_pad computed
Bound(n) == [panic |-> FALSE, value |-> n]

\* input[input.len() - 1] on an empty slice: the subtraction overflows, or
\* wraps to usize::MAX and the index is past the end
LastOfEmpty(checks) == IF checks THEN Panicked(MsgOverflow) ELSE Panicked(MsgIndex)

\* some byte of input[from..to] (0-based, to excluded) differs from v
Mismatch(input, from, to, v) == \E i \in from..(to - 1) : input[i + 1] # v

de_pad_PKCS7(input, checks) ==
  IF Len(input) = 0 THEN LastOfEmpty(checks)
  ELSE LET padding_length == input[Len(input)]
       IN  IF padding_length > 16 \/ padding_length > Len(input)
             THEN Panicked(MsgInvalidPadding)
           ELSE IF Mismatch(input, Len(input) - padding_length, Len(input) - 1,
                            padding_length)
             THEN Panicked(MsgInvalidPadding)
           ELSE Bound(Len(input) - padding_length)

\* the while loop of the ISO 7816-4 arm: the index of the last non-zero byte,
\* or -1 when curr_index -= 1 is reached at index 0
RECURSIVE LastNonZero(_, _)
LastNonZero(input, curr_index) ==
  IF curr_index < 0 THEN -1
  ELSE IF input[curr_index + 1] = 0 THEN LastNonZero(input, curr_index - 1)
  ELSE curr_index

\* a faulty ISO 7816-4 arm: the 0x80 marker is kept as data
de_pad_ISO78164_keep_marker(input, checks) ==
  IF Len(input) = 0 THEN LastOfEmpty(checks)
  ELSE LET curr_index == LastNonZero(input, Len(input) - 1)
       IN  IF curr_index < 0
             THEN (IF checks THEN Panicked(MsgOverflow) ELSE Panicked(MsgIndex))
           ELSE IF input[curr_index + 1] # 128 \/ Len(input) - curr_index > 16
             THEN Panicked(MsgInvalidPadding)
           ELSE Bound(curr_index + 1)

de_pad_ISO78164(input, checks) ==
  IF Len(input) = 0 THEN LastOfEmpty(checks)
  ELSE LET curr_index == LastNonZero(input, Len(input) - 1)
       IN  IF curr_index < 0
             THEN (IF checks THEN Panicked(MsgOverflow) ELSE Panicked(MsgIndex))
           ELSE IF input[curr_index + 1] # 128 \/ Len(input) - curr_index > 16
             THEN Panicked(MsgInvalidPadding)
           ELSE Bound(curr_index)

\* a faulty ISO 10126-2 arm: the interior pad bytes are compared with the
\* count, as the PKCS7 arm does
de_pad_ISO101262_checked(input, checks) ==
  IF Len(input) = 0 THEN LastOfEmpty(checks)
  ELSE LET padding_length == input[Len(input)]
       IN  IF padding_length > 16 \/ padding_length > Len(input)
             THEN Panicked(MsgInvalidPadding)
           ELSE IF Mismatch(input, Len(input) - padding_length, Len(input) - 1,
                            padding_length)
             THEN Panicked(MsgInvalidPadding)
           ELSE Bound(Len(input) - padding_length)

de_pad_ISO101262(input, checks) ==
  IF Len(input) = 0 THEN LastOfEmpty(checks)
  ELSE LET padding_length == input[Len(input)]
       IN  IF padding_length > 16 \/ padding_length > Len(input)
             THEN Panicked(MsgInvalidPadding)
           ELSE Bound(Len(input) - padding_length)

\* a faulty ANSI X9.23 arm: the count is not compared with 16
de_pad_X923_unchecked(input, checks) ==
  IF Len(input) = 0 THEN LastOfEmpty(checks)
  ELSE LET padding_length == input[Len(input)]
       IN  IF padding_length > Len(input)
             THEN (IF checks THEN Panicked(MsgOverflow) ELSE Panicked(MsgSliceEnd))
           ELSE IF Mismatch(input, Len(input) - padding_length, Len(input) - 1, 0)
             THEN Panicked(MsgInvalidPadding)
           ELSE Bound(Len(input) - padding_length)

de_pad_X923(input, checks) ==
  IF Len(input) = 0 THEN LastOfEmpty(checks)
  ELSE LET padding_length == input[Len(input)]
       IN  IF padding_length > 16 THEN Panicked(MsgInvalidPadding)
           ELSE IF padding_length > Len(input)
             \* input.len() - padding_length overflows; wrapped, the range of
             \* the for loop is empty and upper_bound is past the end
             THEN (IF checks THEN Panicked(MsgOverflow) ELSE Panicked(MsgSliceEnd))
           ELSE IF Mismatch(input, Len(input) - padding_length, Len(input) - 1, 0)
             THEN Panicked(MsgInvalidPadding)
           ELSE Bound(Len(input) - padding_length)

de_pad(t, input, checks) ==
  IF t = "None" THEN Panicked(MsgDePadNone)
  ELSE LET upper_bound ==
             CASE t = "PKCS7" -> de_pad_PKCS7(input, checks)
               [] t = "ISO78164" -> de_pad_ISO78164(input, checks)
               [] t = "ISO101262" -> de_pad_ISO101262(input, checks)
               [] t = "X923" -> de_pad_X923(input, checks)
       IN  IF upper_bound.panic THEN upper_bound
           ELSE Returned(Prefix(input, upper_bound.value))

-----------------------------------------------------------------------------
(* The inputs padding is exercised on *)

\* pad is called on inputs of 0..MaxPadLen bytes
MaxPadLen == 17

\* de_pad is called on slices of 0..MaxDePadLen bytes
MaxDePadLen == 17

\* byte values at the edges of the checks: 0, the counts 1, 2 and 16,
\* 17 (the first count out of range), 0x80 and 0xff
SampleBytes == {0, 1, 2, 16, 17, 128, 255}

\* the bytes the rest of an input is filled with
FillBytes == {0, 2, 16}

\* out-of-range values for the count byte of a padded block
OutOfRangeCounts == {17, 128, 255}

\* an input of len bytes: fill everywhere, then its last byte
PadInput(len, fill, last) == [i \in 1..len |-> IF i = len THEN last ELSE fill]

PadInputs ==
  {PadInput(len, f, l) : len \in 0..MaxPadLen, f \in FillBytes, l \in SampleBytes}

\* what random::<u8>() returns for each output index: two alternating bytes
RandomBytes(a, b) == [i \in 0..(BlockLen - 1) |-> IF i % 2 = 0 THEN a ELSE b]

Randoms == {RandomBytes(a, b) : a \in FillBytes \cup {255}, b \in FillBytes \cup {255}}

\* a slice of len bytes: fill everywhere, one byte v at index at (0-based),
\* then its last byte
DePadInput(len, fill, last, at, v) ==
  [i \in 1..len |-> IF i = len THEN last ELSE IF i - 1 = at THEN v ELSE fill]

DePadInputs ==
  {DePadInput(len, f, l, at, v) :
     len \in 0..MaxDePadLen, f \in FillBytes, l \in SampleBytes,
     at \in 0..MaxDePadLen, v \in {0, 1, 128}}

NoSource == [chained |-> FALSE, tampered |-> FALSE, input |-> << >>]

-----------------------------------------------------------------------------
(* Padding as a state machine.  A Padding holds nothing but its padding_type,
   so a behaviour is one Padding::new, one call of pad or de_pad on an input
   of the caller's, and the de_pad calls a caller makes on what pad returned. *)

\* no cipher instance exists in the behaviours of padding
AesIdle ==
  /\ key = NoKey
  /\ round_keys = << >>
  /\ op = "none"
  /\ block = NoBlock
  /\ out = NoResult
  /\ chained = NoBlock

\* let padding = Padding::new(padding_type), in a debug or a release build
InitPadding ==
  /\ padding_type \in PaddingTypes
  /\ overflow_checks \in BOOLEAN
  /\ pad_op = "new"
  /\ pad_input = << >>
  /\ pad_result = NoResult
  /\ pad_source = NoSource
  /\ AesIdle
  /\ CallIdle
  /\ PrimIdle

\* padding.pad(&input), random being what random::<u8>() returns
Pad(input, random) ==
  /\ pad_op' = "pad"
  /\ pad_input' = input
  /\ pad_result' = pad(padding_type, input, random)
  /\ pad_source' = NoSource
  /\ UNCHANGED << padding_type, overflow_checks, aes_vars, call_vars, prim_vars >>

\* padding.de_pad(&input)
DePad(input, source) ==
  /\ pad_op' = "de_pad"
  /\ pad_input' = input
  /\ pad_result' = de_pad(padding_type, input, overflow_checks)
  /\ pad_source' = source
  /\ UNCHANGED << padding_type, overflow_checks, aes_vars, call_vars, prim_vars >>

\* pad on an input of the caller's
PadCall ==
  /\ pad_op = "new"
  /\ \E input \in PadInputs :
       \E random \in (IF padding_type = "ISO101262" THEN Randoms
                      ELSE {RandomBytes(0, 0)}) :
         Pad(input, random)

\* de_pad on a slice of the caller's
DePadCall ==
  /\ pad_op = "new"
  /\ \E input \in DePadInputs : DePad(input, NoSource)

\* de_pad on the block the preceding pad returned
DePadPadded ==
  /\ pad_op = "pad"
  /\ ~pad_result.panic
  /\ DePad(pad_result.value,
           [chained |-> TRUE, tampered |-> FALSE, input |-> pad_input])

\* the caller overwrites the last byte of the block the preceding pad
\* returned with an out-of-range count, then calls de_pad on it
DePadTampered ==
  /\ pad_op = "pad"
  /\ ~pad_result.panic
  /\ \E count \in OutOfRangeCounts :
       DePad([pad_result.value EXCEPT ![BlockLen] = count],
             [chained |-> TRUE, tampered |-> TRUE, input |-> pad_input])

NextPadding ==
  \/ PadCall
  \/ DePadCall
  \/ DePadPadded
  \/ DePadTampered

SpecPadding == InitPadding /\ [][NextPadding]_vars


-----------------------------------------------------------------------------
(* encrypt and decrypt statement by statement: callers holding &AES run
   their calls on one shared instance, one statement group at a time *)

\* number of callers sharing the instance
MaxCallers == 2

Callers == 1..MaxCallers

\* the instances the callers share
CallKeys == {FipsKey(v) : v \in Variants}

\* the block a caller gives to encrypt, and to decrypt
CallBlock(o, k) == IF o = "encrypt" THEN FipsPlain ELSE FipsCipher(k.variant)

NoCall ==
  [op |-> "none", block |-> NoBlock, pc |-> "idle", round |-> 0, rounds |-> 0,
   log |-> << >>, result |-> NoResult, overlapped |-> FALSE]

\* the positions of a call that has started and not returned
Running == {"first", "loop", "final"}

\* a faulty state: one buffer held by the instance and used by every call
StateSlot_shared(c) == 1

\* `let mut state` is a local of the call: each call has its own
StateSlot(c) == c

\* one statement of encrypt or decrypt: Self::<name>(&mut state), rk being
\* the slice the add_round_key statements pass
Primitive(name, state, rk) ==
  CASE name = "sub_bytes" -> sub_bytes(state)
    [] name = "shift_rows" -> shift_rows(state)
    [] name = "mix_columns" -> mix_columns(state)
    [] name = "add_round_key" -> add_round_key(state, rk)
    [] name = "inv_sub_bytes" -> inv_sub_bytes(state)
    [] name = "inv_shift_rows" -> inv_shift_rows(state)
    [] name = "inv_mix_columns" -> inv_mix_columns(state)

\* what a statement leaves in the log of its call: its name, and for
\* add_round_key the index of the first schedule word of its slice
Logged(name, from) == IF name = "add_round_key" THEN << name, from >> ELSE << name >>

\* the statements stmts run in order on run.state, each logged in run.log
RECURSIVE RunStatements(_, _, _, _)
RunStatements(stmts, run, rks, from) ==
  IF stmts = << >> THEN run
  ELSE RunStatements(
         Tail(stmts),
         [state |-> Primitive(Head(stmts), run.state, RoundKeySlice(rks, from)),
          log |-> Append(run.log, Logged(Head(stmts), from))],
         rks, from)

\* the statement before the loop
FirstStatements == << "add_round_key" >>

\* the body of the for loop of encrypt, and of decrypt
LoopBody(o) ==
  IF o = "encrypt"
    THEN << "sub_bytes", "shift_rows", "mix_columns", "add_round_key" >>
    ELSE << "inv_shift_rows", "inv_sub_bytes", "add_round_key", "inv_mix_columns" >>

\* a faulty last round: the column mixing is not left out
FinalStatements_with_mix(o) == LoopBody(o)

\* the statements after the loop
FinalStatements(o) ==
  IF o = "encrypt"
    THEN << "sub_bytes", "shift_rows", "add_round_key" >>
    ELSE << "inv_shift_rows", "inv_sub_bytes", "add_round_key" >>

\* the first word of the slice of the statement before the loop:
\* &self.round_keys[0..4] in encrypt, [(len - 4)..] in decrypt
FirstKeyFrom(o, rks) == IF o = "encrypt" THEN 0 ELSE Len(rks) - 4

\* the first word of the slice of the statement after the loop
LastKeyFrom(o, rks) == IF o = "encrypt" THEN Len(rks) - 4 ELSE 0

\* the range of the loop, 1..rounds, runs upwards in encrypt and .rev() in decrypt
LoopStart(o, rounds) == IF o = "encrypt" THEN 1 ELSE rounds - 1

LoopNext(o, round) == IF o = "encrypt" THEN round + 1 ELSE round - 1

LoopOver(o, round, rounds) == IF o = "encrypt" THEN round >= rounds ELSE round < 1

\* caller c has taken a step: calls whose statements now lie on both sides of
\* another caller's step, or c's among another's, are marked overlapped
Stepped(c, call) ==
  [d \in Callers |->
     IF d = c
       THEN [call EXCEPT !.overlapped = @ \/ \E e \in Callers \ {c} : calls[e].pc \in Running]
     ELSE IF calls[d].pc \in Running THEN [calls[d] EXCEPT !.overlapped = TRUE]
     ELSE calls[d]]

\* let aes = AES::new(key), shared by the callers
InitCalls ==
  /\ \E k \in CallKeys :
       /\ key = AESnew(k).key
       /\ round_keys = AESnew(k).round_keys
  /\ op = "new"
  /\ block = NoBlock
  /\ out = NoResult
  /\ chained = NoBlock
  /\ calls = [c \in Callers |-> NoCall]
  /\ call_state = [c \in Callers |-> << >>]
  /\ PadIdle
  /\ PrimIdle

\* caller c enters aes.encrypt(&b) or aes.decrypt(&b): block to state
Begin(c, o) ==
  /\ calls[c].pc = "idle"
  /\ calls' = Stepped(c, [NoCall EXCEPT !.op = o, !.block = CallBlock(o, key),
                                        !.pc = "first"])
  /\ call_state' = [call_state EXCEPT ![StateSlot(c)] = ToState(CallBlock(o, key))]
  /\ UNCHANGED << aes_vars, pad_vars, prim_vars >>

\* the add_round_key before the loop; the range of the loop is then
\* evaluated from self.key
FirstStep(c) ==
  /\ calls[c].pc = "first"
  /\ LET call == calls[c]
     IN  \E run \in {RunStatements(FirstStatements,
                                   [state |-> call_state[StateSlot(c)], log |-> call.log],
                                   round_keys, FirstKeyFrom(call.op, round_keys))} :
         /\ calls' = Stepped(c, [call EXCEPT !.pc = "loop",
                                             !.rounds = Rounds(key),
                                             !.round = LoopStart(call.op, Rounds(key)),
                                             !.log = run.log])
         /\ call_state' = [call_state EXCEPT ![StateSlot(c)] = run.state]
  /\ UNCHANGED << aes_vars, pad_vars, prim_vars >>

\* one pass of the loop body
LoopStep(c) ==
  /\ calls[c].pc = "loop"
  /\ LET call == calls[c]
         next == LoopNext(call.op, call.round)
     IN  IF ~SliceInRange(round_keys, call.round)
           THEN /\ calls' = Stepped(c, [call EXCEPT
                               !.pc = "done",
                               !.result = Panicked("range end index out of range for slice")])
                /\ UNCHANGED call_state
           ELSE \E run \in {RunStatements(LoopBody(call.op),
                                            [state |-> call_state[StateSlot(c)],
                                             log |-> call.log],
                                            round_keys, call.round * 4)} :
                    /\ calls' = Stepped(c, [call EXCEPT
                                   !.round = next,
                                   !.pc = IF LoopOver(call.op, next, call.rounds)
                                            THEN "final" ELSE "loop",
                                   !.log = run.log])
                    /\ call_state' = [call_state EXCEPT ![StateSlot(c)] = run.state]
  /\ UNCHANGED << aes_vars, pad_vars, prim_vars >>

\* the statements after the loop, state to out_block, return
FinalStep(c) ==
  /\ calls[c].pc = "final"
  /\ LET call == calls[c]
     IN  \E run \in {RunStatements(FinalStatements(call.op),
                                   [state |-> call_state[StateSlot(c)], log |-> call.log],
                                   round_keys, LastKeyFrom(call.op, round_keys))} :
         /\ calls' = Stepped(c, [call EXCEPT !.pc = "done",
                                             !.log = run.log,
                                             !.result = Returned(FromState(run.state))])
         /\ call_state' = [call_state EXCEPT ![StateSlot(c)] = run.state]
  /\ UNCHANGED << aes_vars, pad_vars, prim_vars >>

NextCalls ==
  \E c \in Callers :
    \/ \E o \in {"encrypt", "decrypt"} : Begin(c, o)
    \/ FirstStep(c)
    \/ LoopStep(c)
    \/ FinalStep(c)

SpecCalls == InitCalls /\ [][NextCalls]_vars

-----------------------------------------------------------------------------
(* The round primitives called on their own: a forward primitive on a state,
   then its inverse on what it left *)

\* number of forward primitives called in a row on one state
MaxPrimDepth == 2

\* the block 16k, 16k+1, ..., 16k+15 as a state; k in 0..15 covers every byte
RampState(k) == ToState(Eager([i \in 0..15 |-> 16 * k + i]))

\* the same bytes laid out row by row: state[r][c] = 16k + 4r + c
RampRows(k) == Eager2([r \in 0..3 |-> [c \in 0..3 |-> 16 * k + 4 * r + c]])

PrimStates ==
  {RampState(k) : k \in 0..15} \cup {RampRows(k) : k \in 0..15} \cup {ToState(FipsPlain)}

Forwards == {"sub_bytes", "shift_rows", "mix_columns"}

\* the primitive decrypt calls where encrypt calls `name`
InverseOf(name) ==
  CASE name = "sub_bytes" -> "inv_sub_bytes"
    [] name = "shift_rows" -> "inv_shift_rows"
    [] name = "mix_columns" -> "inv_mix_columns"

NoRoundKey == << >>

InitRound ==
  /\ prim_op = "load"
  /\ prim_state \in PrimStates
  /\ prim_in = prim_state
  /\ prim_orig = prim_state
  /\ prim_depth = 0
  /\ AesIdle
  /\ PadIdle
  /\ CallIdle

\* Self::sub_bytes(&mut state), Self::shift_rows(..) or Self::mix_columns(..)
PrimForward(name) ==
  /\ prim_depth < MaxPrimDepth
  /\ prim_op' = name
  /\ prim_in' = prim_state
  /\ prim_orig' = prim_state
  /\ prim_state' = Primitive(name, prim_state, NoRoundKey)
  /\ prim_depth' = prim_depth + 1
  /\ UNCHANGED << aes_vars, pad_vars, call_vars >>

\* the inverse primitive on the state its forward primitive left
PrimInverse(name) ==
  /\ prim_op = name
  /\ prim_op' = InverseOf(name)
  /\ prim_in' = prim_state
  /\ prim_state' = Primitive(InverseOf(name), prim_state, NoRoundKey)
  /\ UNCHANGED << prim_orig, prim_depth, aes_vars, pad_vars, call_vars >>

NextRound ==
  \/ \E name \in Forwards : PrimForward(name)
  \/ \E name \in Forwards : PrimInverse(name)

SpecRound == InitRound /\ [][NextRound]_vars
-----------------------------------------------------------------------------
(* The errors the specification names, as the code signals them *)

\* the condition a panic of pad or de_pad reports: the panic! sites of
\* padding.rs by their messages; any other panic comes from the runtime
ErrorKind(result) ==
  CASE result.value \in {MsgPadNone, MsgDePadNone} -> "NonePaddingUsed"
    [] result.value = MsgPad16 -> "InvalidSize"
    [] result.value = MsgInvalidPadding -> "InvalidPadding"
    [] OTHER -> "RuntimePanic"

FailedWith(result, kind) == result.panic /\ ErrorKind(result) = kind

\* the instance is as AES::new(key) built it
Constructed == round_keys = key_expansion(key)

-----------------------------------------------------------------------------
(* Claims *)

\* C1: for every key of each variant and every 16-byte block b,
\* AES::new(key).decrypt(AES::new(key).encrypt(b)) == b.
C1_RoundTrip ==
  (op = "decrypt" /\ chained # NoBlock /\ Constructed)
    => (~out.panic /\ out.value = chained)

\* C1 happens: an AES-256 instance decrypted the encryption of the FIPS
\* plaintext back to it
C1_Witness ==
  /\ op = "decrypt"
  /\ key = TestKey256
  /\ Constructed
  /\ chained = FipsPlain
  /\ block # FipsPlain
  /\ ~out.panic
  /\ out.value = FipsPlain

\* C2: encrypt reproduces the FIPS-197 Appendix C known-answer vectors for
\* AES-128, AES-192 and AES-256, and decrypt maps each ciphertext back to the
\* plaintext.
C2_KnownAnswers ==
  \A v \in Variants :
    (key = FipsKey(v) /\ Constructed) =>
      /\ (op = "encrypt" /\ block = FipsPlain)
           => (~out.panic /\ out.value = FipsCipher(v))
      /\ (op = "decrypt" /\ block = FipsCipher(v))
           => (~out.panic /\ out.value = FipsPlain)

\* C2 happens: the AES-192 vector was encrypted
C2_Witness ==
  /\ op = "encrypt"
  /\ key = FipsKey("AES192")
  /\ Constructed
  /\ block = FipsPlain
  /\ ~out.panic
  /\ out.value = FipsCipher("AES192")

\* FIPS-197 5.2: the round constant number j (from 0) is x^j in GF(2^8)
RECURSIVE C3_Rcon(_)
C3_Rcon(j) == IF j = 0 THEN 1 ELSE xtime(C3_Rcon(j - 1))

\* FIPS-197 5.2: temp for word i, from the word before it
C3_Temp(prev, i, nk) ==
  IF i % nk = 0
    THEN Arr(<< Xor(SBoxAt(prev[1]), C3_Rcon((i \div nk) - 1)),
                SBoxAt(prev[2]), SBoxAt(prev[3]), SBoxAt(prev[0]) >>)
  ELSE IF nk = 8 /\ i % nk = 4
    THEN Arr(<< SBoxAt(prev[0]), SBoxAt(prev[1]), SBoxAt(prev[2]), SBoxAt(prev[3]) >>)
  ELSE prev

\* the last word of the schedule the published test keys expand to
C3_LastWord(k) ==
  CASE k = TestKey128 -> Arr(<< 182, 99, 12, 166 >>)
    [] k = TestKey192 -> Arr(<< 1, 0, 34, 2 >>)
    [] k = TestKey256 -> Arr(<< 112, 108, 99, 30 >>)

\* C3: key_expansion equals the FIPS-197 reference expansion for every key:
\* word i < Nk is key bytes 4i..4i+3; every later word i is word[i-Nk] XOR
\* temp, temp being word[i-1] rotated, substituted and XORed with round
\* constant (i/Nk)-1 when i mod Nk == 0, substituted only when Nk == 8 and
\* i mod Nk == 4; and the last words of the three test keys are b6630ca6,
\* 01002202 and 706c631e.
C3_KeyExpansion ==
  op = "new" =>
    LET nk == Nk(key)
        n  == 4 * (Rounds(key) + 1)
    IN  /\ Len(round_keys) = n
        /\ \A i \in 0..(nk - 1) : \A b \in 0..3 :
             round_keys[i + 1][b] = key.key_seq[4 * i + b]
        /\ \A i \in nk..(n - 1) : \A b \in 0..3 :
             round_keys[i + 1][b] =
               Xor(round_keys[i - nk + 1][b], C3_Temp(round_keys[i], i, nk)[b])
        /\ key \in {TestKey128, TestKey192, TestKey256}
             => round_keys[n] = C3_LastWord(key)

\* C3 happens: the 192-bit test key was expanded to 52 words ending 01002202
C3_Witness ==
  /\ op = "new"
  /\ key = TestKey192
  /\ Len(round_keys) = 52
  /\ round_keys[52] = Arr(<< 1, 0, 34, 2 >>)

\* C4: in every state reachable after AES::new(key), the schedule has exactly
\* 4*(rounds+1) words for the key variant the instance currently holds, never
\* disagrees with the instance's key, and every round-key slice encrypt and
\* decrypt take lies inside it.
C4_ScheduleMatchesKey ==
  /\ Len(round_keys) = 4 * (Rounds(key) + 1)
  /\ Constructed
  /\ op \in {"encrypt", "decrypt"} => ~out.panic

\* C5: for every scheme but None and every input of 0..15 bytes,
\* de_pad(pad(input)) == input.
C5_PadRoundTrip ==
  (pad_op = "de_pad" /\ pad_source.chained /\ ~pad_source.tampered)
    => (~pad_result.panic /\ pad_result.value = pad_source.input)

\* C5 happens: a 15-byte input ending in 0x80 went through ISO 7816-4
C5_Witness ==
  /\ pad_op = "de_pad"
  /\ padding_type = "ISO78164"
  /\ pad_source.chained
  /\ ~pad_source.tampered
  /\ pad_source.input = PadInput(15, 0, 128)
  /\ ~pad_result.panic
  /\ pad_result.value = PadInput(15, 0, 128)

\* C6: for every input of len < 16 bytes pad returns 16 bytes, the first len
\* the input, the rest by scheme: PKCS7 all 16-len; ISO 7816-4 0x80 then
\* 0x00; ANSI X9.23 0x00 then 16-len in byte 15; ISO 10126-2 16-len in byte 15.
C6_PadLayout ==
  (pad_op = "pad" /\ padding_type # "None" /\ Len(pad_input) < 16) =>
    LET len == Len(pad_input)
        o   == pad_result.value
    IN  /\ ~pad_result.panic
        /\ Len(o) = 16
        /\ \A i \in 1..len : o[i] = pad_input[i]
        /\ padding_type = "PKCS7" => \A i \in (len + 1)..16 : o[i] = 16 - len
        /\ padding_type = "ISO78164" =>
             o[len + 1] = 128 /\ \A i \in (len + 2)..16 : o[i] = 0
        /\ padding_type = "X923" =>
             o[16] = 16 - len /\ \A i \in (len + 1)..15 : o[i] = 0
        /\ padding_type = "ISO101262" => o[16] = 16 - len

\* C6 happens: a 3-byte input was padded under ANSI X9.23
C6_Witness ==
  /\ pad_op = "pad"
  /\ padding_type = "X923"
  /\ Len(pad_input) = 3
  /\ ~pad_result.panic
  /\ pad_result.value[16] = 13
  /\ pad_result.value[4] = 0

\* C7: for every scheme other than None, pad on an input of 16 bytes or more
\* fails with InvalidSize and never returns a block.
C7_PadRejectsLong ==
  (pad_op = "pad" /\ padding_type # "None" /\ Len(pad_input) >= 16)
    => FailedWith(pad_result, "InvalidSize")

\* C8: for every scheme other than None, de_pad on an input whose length is
\* not exactly 16 fails (with InvalidBlockSize) and never returns data.
C8_DePadRejectsWrongLength ==
  (pad_op = "de_pad" /\ padding_type # "None" /\ Len(pad_input) # 16)
    => pad_result.panic

\* C9: under the None scheme pad and de_pad fail with NonePaddingUsed for
\* every input, whatever its length or content, and produce no output.
C9_NoneRejected ==
  (padding_type = "None" /\ pad_op \in {"pad", "de_pad"})
    => FailedWith(pad_result, "NonePaddingUsed")

\* C9 happens: de_pad under None was given a 16-byte block
C9_Witness ==
  /\ padding_type = "None"
  /\ pad_op = "de_pad"
  /\ Len(pad_input) = 16
  /\ pad_result.panic
  /\ pad_result.value = MsgDePadNone

\* C10: for PKCS7 and ANSI X9.23, replacing the final pad-count byte of a
\* validly padded block with a value greater than 16 makes de_pad fail with
\* InvalidPadding.
C10_TamperDetected ==
  (pad_op = "de_pad" /\ pad_source.tampered /\ padding_type \in {"PKCS7", "X923"})
    => FailedWith(pad_result, "InvalidPadding")

\* C10 happens: the count byte of an X9.23 block was set to 17
C10_Witness ==
  /\ pad_op = "de_pad"
  /\ padding_type = "X923"
  /\ pad_source.tampered
  /\ pad_input[16] = 17
  /\ pad_result.panic
  /\ pad_result.value = MsgInvalidPadding

\* some pad byte of the 16-byte block that the scheme fixes has another value
C11_WrongPadByte(t, input) ==
  LET n  == input[16]
      nz == {i \in 1..16 : input[i] # 0}
  IN  CASE t = "PKCS7" -> n \in 1..16 /\ \E i \in (17 - n)..16 : input[i] # n
        [] t = "X923" -> \E i \in 1..15 : i >= 17 - n /\ input[i] # 0
        [] t = "ISO78164" ->
             nz = {} \/ input[CHOOSE i \in nz : \A j \in nz : j <= i] # 128
        [] OTHER -> FALSE

\* C11: on a 16-byte block de_pad fails with InvalidPadding whenever a pad
\* byte of fixed value is wrong: PKCS7 with count n in 1..16 and one of the
\* last n bytes not n; ANSI X9.23 with count n and one of the n-1 bytes before
\* the count not zero; ISO 7816-4 with a last non-zero byte other than 0x80,
\* or with no non-zero byte at all.
C11_ConstantBytesChecked ==
  (pad_op = "de_pad" /\ Len(pad_input) = 16
     /\ C11_WrongPadByte(padding_type, pad_input))
    => FailedWith(pad_result, "InvalidPadding")

\* C12: under ISO 10126-2, de_pad of a 16-byte block whose last byte n is at
\* most 16 returns the first 16-n bytes, whatever the interior pad bytes are.
C12_OnlyCountValidated ==
  (pad_op = "de_pad" /\ padding_type = "ISO101262" /\ Len(pad_input) = 16
     /\ pad_input[16] <= 16)
    => /\ ~pad_result.panic
       /\ pad_result.value = SubSeq(pad_input, 1, 16 - pad_input[16])

\* C12 happens: a block ending in count 2 after a pad byte 0x80 gave 14 bytes
C12_Witness ==
  /\ pad_op = "de_pad"
  /\ padding_type = "ISO101262"
  /\ Len(pad_input) = 16
  /\ pad_input[16] = 2
  /\ pad_input[15] = 128
  /\ ~pad_result.panic
  /\ Len(pad_result.value) = 14

\* C13 as stated: every error of pad and de_pad is returned to the caller as
\* a result value, and no call of pad or de_pad, on any input and scheme,
\* terminates abnormally.
C13_NoAbnormalTermination ==
  pad_op \in {"pad", "de_pad"} => ~pad_result.panic

\* C13 as amended: the errors pad and de_pad check for end the call with a
\* panic carrying the error's message, and no value is returned: the None
\* scheme in pad and in de_pad, a 16-byte input in pad, and a count byte above
\* 16 in de_pad under PKCS7, ISO 10126-2 and ANSI X9.23.
C13_ErrorsPanic ==
  /\ (pad_op = "pad" /\ padding_type = "None")
       => (pad_result.panic /\ pad_result.value = MsgPadNone)
  /\ (pad_op = "de_pad" /\ padding_type = "None")
       => (pad_result.panic /\ pad_result.value = MsgDePadNone)
  /\ (pad_op = "pad" /\ padding_type # "None" /\ Len(pad_input) = 16)
       => (pad_result.panic /\ pad_result.value = MsgPad16)
  /\ (pad_op = "de_pad" /\ padding_type \in {"PKCS7", "ISO101262", "X923"}
         /\ Len(pad_input) > 0 /\ pad_input[Len(pad_input)] > 16)
       => (pad_result.panic /\ pad_result.value = MsgInvalidPadding)

\* C13 happens: pad under PKCS7 was given 16 bytes and panicked
C13_Witness ==
  /\ pad_op = "pad"
  /\ padding_type = "PKCS7"
  /\ Len(pad_input) = 16
  /\ pad_result.panic
  /\ pad_result.value = MsgPad16

\* what encrypt or decrypt returns on the block of a caller when it is the
\* only call running on AES::new(k)
C14_RunAlone(k, o) ==
  IF o = "encrypt"
    THEN encrypt(AESnew(k).key, AESnew(k).round_keys, CallBlock(o, k))
    ELSE decrypt(AESnew(k).key, AESnew(k).round_keys, CallBlock(o, k))

C14_AloneResults ==
  Eager([k \in CallKeys |->
           Eager([o \in {"encrypt", "decrypt"} |-> C14_RunAlone(k, o)])])

\* C14: encrypt and decrypt leave the key and the round-key schedule of the
\* instance unchanged, and with callers running encrypt and decrypt on the
\* same instance in any interleaving, without locking, every call returns the
\* value it returns when it runs alone on its block.
C14_ReadOnlyCalls ==
  [][/\ key' = key
     /\ round_keys' = round_keys
     /\ \A c \in Callers :
          (calls[c].pc # "done" /\ calls'[c].pc = "done")
            => calls'[c].result = C14_AloneResults[key][calls[c].op]]_vars

\* C14 happens: an encrypt returned the FIPS ciphertext after its statements
\* were interleaved with those of a decrypt that is still in its loop
C14_Witness ==
  /\ calls # << >>
  /\ calls[1].pc = "done"
  /\ calls[1].op = "encrypt"
  /\ calls[1].overlapped
  /\ calls[1].result = Returned(FipsCipher(key.variant))
  /\ calls[2].op = "decrypt"
  /\ calls[2].pc = "loop"
  /\ calls[2].overlapped

\* the steps of a round as C15 lists them
C15_RoundSteps(o) ==
  IF o = "encrypt"
    THEN << "SubBytes", "ShiftRows", "MixColumns", "AddRoundKey" >>
    ELSE << "InvShiftRows", "InvSubBytes", "AddRoundKey", "InvMixColumns" >>

C15_FinalSteps(o) ==
  IF o = "encrypt"
    THEN << "SubBytes", "ShiftRows", "AddRoundKey" >>
    ELSE << "InvShiftRows", "InvSubBytes", "AddRoundKey" >>

\* the function of the source each step of FIPS-197 names
C15_Function(step) ==
  CASE step = "SubBytes" -> "sub_bytes"
    [] step = "ShiftRows" -> "shift_rows"
    [] step = "MixColumns" -> "mix_columns"
    [] step = "AddRoundKey" -> "add_round_key"
    [] step = "InvSubBytes" -> "inv_sub_bytes"
    [] step = "InvShiftRows" -> "inv_shift_rows"
    [] step = "InvMixColumns" -> "inv_mix_columns"

\* step `step` of round r: AddRoundKey takes schedule words [4r, 4r+4)
C15_Step(step, r) ==
  IF step = "AddRoundKey" THEN << C15_Function(step), 4 * r >>
  ELSE << C15_Function(step) >>

\* the steps C15 lists for a whole call: round key 0 (encrypt) or `rounds`
\* (decrypt) first, then rounds 1..rounds-1 upwards (encrypt) or downwards
\* (decrypt), then the final steps with round key `rounds` (encrypt) or 0
C15_Expected(o, rounds) ==
  LET loop == 4 * (rounds - 1)
  IN  [i \in 1..(1 + loop + 3) |->
         IF i = 1
           THEN C15_Step("AddRoundKey", IF o = "encrypt" THEN 0 ELSE rounds)
         ELSE IF i <= 1 + loop
           THEN C15_Step(C15_RoundSteps(o)[((i - 2) % 4) + 1],
                         IF o = "encrypt" THEN ((i - 2) \div 4) + 1
                         ELSE rounds - 1 - ((i - 2) \div 4))
         ELSE C15_Step(C15_FinalSteps(o)[i - 1 - loop],
                       IF o = "encrypt" THEN rounds ELSE 0)]

\* the round keys a call used, in the order it used them
C15_RoundKeysUsed(log) ==
  LET IsAddRoundKey(e) == e[1] = "add_round_key"
      used == SelectSeq(log, IsAddRoundKey)
  IN  [j \in 1..Len(used) |-> used[j][2] \div 4]

\* C15: with rounds = 10/12/14, encrypt adds round keys 0, 1, ..., rounds in
\* ascending order, each once, round r taking schedule words [4r, 4r+4);
\* rounds 1..rounds-1 run SubBytes, ShiftRows, MixColumns, AddRoundKey and the
\* final round SubBytes, ShiftRows, AddRoundKey.  decrypt adds the same round
\* keys in descending order, running InvShiftRows, InvSubBytes, AddRoundKey,
\* InvMixColumns for rounds rounds-1 down to 1 and InvShiftRows, InvSubBytes,
\* AddRoundKey last.
C15_RoundOrder ==
  calls # << >> =>
    \A c \in Callers :
      calls[c].pc = "done" =>
        LET rounds == CASE key.variant = "AES128" -> 10
                        [] key.variant = "AES192" -> 12
                        [] key.variant = "AES256" -> 14
        IN  /\ ~calls[c].result.panic
            /\ calls[c].log = C15_Expected(calls[c].op, rounds)
            /\ C15_RoundKeysUsed(calls[c].log) =
                 [j \in 1..(rounds + 1) |->
                    IF calls[c].op = "encrypt" THEN j - 1 ELSE rounds + 1 - j]
            /\ \A i \in 1..Len(calls[c].log) :
                 calls[c].log[i][1] = "add_round_key"
                   => calls[c].log[i][2] + 4 <= Len(round_keys)

\* C15 happens: a decrypt under an AES-192 key ran its 48 statements, the
\* first with round key 12 and the last with round key 0
C15_Witness ==
  /\ calls # << >>
  /\ key.variant = "AES192"
  /\ calls[1].pc = "done"
  /\ calls[1].op = "decrypt"
  /\ Len(calls[1].log) = 48
  /\ calls[1].log[1] = << "add_round_key", 48 >>
  /\ calls[1].log[46] = << "inv_shift_rows" >>
  /\ calls[1].log[48] = << "add_round_key", 0 >>

\* xtime as C16 writes it: b<<1 mod 256, XOR 0x1b when the high bit of b is set
C16_xtime(b) == IF b >= 128 THEN Xor((2 * b) % 256, 27) ELSE (2 * b) % 256

\* k times b in GF(2^8), by doubling with C16_xtime
RECURSIVE C16_Mul(_, _)
C16_Mul(k, b) ==
  IF k = 0 THEN 0
  ELSE Xor(IF k % 2 = 1 THEN b ELSE 0, C16_Mul(k \div 2, C16_xtime(b)))

\* the column of state `s` at c, multiplied by the circulant matrix whose first
\* row is coef: row r of the matrix is coef rotated right by r
C16_MatrixTimes(coef, s, r, c) ==
  Xor(Xor(C16_Mul(coef[((0 - r + 4) % 4) + 1], s[0][c]),
          C16_Mul(coef[((1 - r + 4) % 4) + 1], s[1][c])),
      Xor(C16_Mul(coef[((2 - r + 4) % 4) + 1], s[2][c]),
          C16_Mul(coef[((3 - r + 4) % 4) + 1], s[3][c])))

\* C16: each inverse primitive undoes its forward primitive on every state:
\* inv_sub_bytes after sub_bytes (INV_S_BOX[S_BOX[b]] == b for all 256 bytes),
\* inv_shift_rows after shift_rows (row r rotated left by r, then right by r,
\* row 0 untouched), inv_mix_columns after mix_columns, mix_columns being the
\* product with the GF(2^8) matrix of coefficients {2,3,1,1} and
\* inv_mix_columns with {14,11,13,9}, built from xtime.
C16_InversesUndo ==
  /\ prim_op \in {"inv_sub_bytes", "inv_shift_rows", "inv_mix_columns"}
       => prim_state = prim_orig
  /\ prim_op = "inv_sub_bytes" => \A b \in 0..255 : InvSBoxAt(SBoxAt(b)) = b
  /\ prim_op = "shift_rows"
       => /\ prim_state[0] = prim_in[0]
          /\ \A r \in 0..3 : \A c \in 0..3 : prim_state[r][c] = prim_in[r][(c + r) % 4]
  /\ prim_op = "inv_shift_rows"
       => /\ prim_state[0] = prim_in[0]
          /\ \A r \in 0..3 : \A c \in 0..3 : prim_state[r][(c + r) % 4] = prim_in[r][c]
  /\ prim_op = "mix_columns"
       => \A r \in 0..3 : \A c \in 0..3 :
            prim_state[r][c] = C16_MatrixTimes(<< 2, 3, 1, 1 >>, prim_in, r, c)
  /\ prim_op = "inv_mix_columns"
       => \A r \in 0..3 : \A c \in 0..3 :
            prim_state[r][c] = C16_MatrixTimes(<< 14, 11, 13, 9 >>, prim_in, r, c)
  /\ prim_op \in {"mix_columns", "inv_mix_columns"}
       => \A r \in 0..3 : \A c \in 0..3 : xtime(prim_in[r][c]) = C16_xtime(prim_in[r][c])

\* C16 happens: inv_shift_rows restored a state of bytes 0xf0..0xff that
\* shift_rows had changed
C16_Witness ==
  /\ prim_op = "inv_shift_rows"
  /\ prim_orig = RampState(15)
  /\ prim_in # prim_orig
  /\ prim_state = prim_orig

\* C17: under PKCS7, ISO 10126-2 and ANSI X9.23, whenever de_pad of a 16-byte
\* block succeeds its count byte n is in 1..16 and the result is the first
\* 16-n bytes, never all 16; a block ending in 0x00 fails with InvalidPadding.
C17_CountAtLeastOne ==
  (pad_op = "de_pad" /\ Len(pad_input) = 16
     /\ padding_type \in {"PKCS7", "ISO101262", "X923"})
    => LET n == pad_input[16]
       IN  /\ ~pad_result.panic
                => /\ n \in 1..16
                   /\ pad_result.value = SubSeq(pad_input, 1, 16 - n)
                   /\ Len(pad_result.value) < 16
           /\ n = 0 => FailedWith(pad_result, "InvalidPadding")
====
